---------------------------- MODULE Spec2Model ----------------------------
(***************************************************************************)
(* A model of the Mini ATM Server: the in-memory ledger store              *)
(* (src/app/storage.py), the money codec and the amount validation         *)
(* (src/app/models.py) and the request handlers (src/app/main.py).         *)
(*                                                                         *)
(* Threads execute the store's methods one shared-memory access at a time  *)
(* (a dict lookup, a dict store, a lock acquire or release): the store has *)
(* no synchronisation beyond its per-account locks, so every interleaving  *)
(* of these accesses is possible.                                          *)
(***************************************************************************)
EXTENDS Integers, Sequences, FiniteSets, TLC

(***************************************************************************)
(* Bounds of the model.                                                    *)
(***************************************************************************)
NThreads == 2          \* concurrent callers
MaxCalls == 3          \* calls made in one execution, all threads together
MaxAmount == 2         \* amounts and opening balances range over 0..MaxAmount
MaxSeed == 1           \* the seeded account starts with 0..MaxSeed cents

MaxK == 3              \* concurrent depositors of the parallel-deposit scenario

StoreThreads == 1..NThreads
Depositors == 1..MaxK
NoThread == 0          \* a Lock nobody holds
None == -1             \* Python's None / an unset local

\* Account keys: SeedKey is in the seed mapping, NewKey is not.
SeedKey == "1003"
NewKey == "2001"
Keys == {SeedKey, NewKey}

Amounts == 1..MaxAmount
Openings == 0..MaxAmount

VARIABLES
    balances,      \* InMemoryStore._balances : dict key -> int
    locks,         \* InMemoryStore._locks : dict key -> Lock (a lock object id)
    lockHolder,    \* the Lock objects made so far: id -> holding thread or NoThread
    pc,            \* each thread's position
    call,          \* each thread's current call: [op, key, amt], and the request's amount text
    loc,           \* each thread's locals: [lock, bal], and the record of its own write
    out,           \* each thread's last outcome: [res, val]
    ncalls,        \* calls made so far
    created,       \* history: per key, the create_account calls that returned normally
    lin,           \* history: per key, the sequential explanations of the calls so far
    scn,           \* the scenario under way, and its parameters
    cdc,           \* the money codec at work on one value: [stage, n, text, back]
    boot           \* the start of the application: [stage, env, i, out, err]

vars == <<balances, locks, lockHolder, pc, call, loc, out, ncalls, created, lin, scn, cdc, boot>>

Threads == DOMAIN pc

NoCall == [op |-> "none", key |-> "", amt |-> 0, text |-> <<>>]
NoLoc == [lock |-> None, bal |-> None, pre |-> None, post |-> None, size |-> None, snap |-> <<>>]
NoOut == [res |-> "none", val |-> None]

\* dict helpers
Has(d, k) == k \in DOMAIN d
Put(d, k, v) == [x \in DOMAIN d \cup {k} |-> IF x = k THEN v ELSE d[x]]

\* threading.Lock(): a new lock object, unlocked
NewLockId == Len(lockHolder) + 1

(***************************************************************************)
(* Text and numbers.  A text is a sequence of characters.  A Python int is *)
(* [neg, mag]: its sign and the decimal digits of its magnitude, most      *)
(* significant first and without leading zeros (0 is <<0>>); a balance or  *)
(* an amount inside the store is the integer itself.  A decimal.Decimal is *)
(* [kind, sign, digits, exp] as Decimal.as_tuple() shows it.               *)
(***************************************************************************)
DigitSeq == <<"0", "1", "2", "3", "4", "5", "6", "7", "8", "9">>
DigitChar(d) == DigitSeq[d + 1]
IsDigit(c) == \E d \in 0..9 : DigitSeq[d + 1] = c
DigitVal(c) == CHOOSE d \in 0..9 : DigitSeq[d + 1] = c

AllDigits(s) == \A i \in 1..Len(s) : IsDigit(s[i])
ToDigits(s) == [i \in 1..Len(s) |-> DigitVal(s[i])]
ToChars(d) == [i \in 1..Len(d) |-> DigitChar(d[i])]
Zeros(n) == [i \in 1..n |-> 0]
IsZero(d) == \A i \in 1..Len(d) : d[i] = 0
Front(s) == SubSeq(s, 1, Len(s) - 1)

\* the first position of one of the characters cs in s, or 0
IndexOf(s, cs) ==
    IF \E i \in 1..Len(s) : s[i] \in cs
       THEN CHOOSE i \in 1..Len(s) : s[i] \in cs /\ \A j \in 1..(i - 1) : s[j] \notin cs
       ELSE 0

RECURSIVE StripZeros(_)
StripZeros(d) ==
    IF d = <<>> THEN <<0>>
    ELSE IF Len(d) > 1 /\ d[1] = 0 THEN StripZeros(Tail(d))
    ELSE d

\* digits of the magnitude plus one
RECURSIVE Increment(_)
Increment(d) ==
    IF d = <<>> THEN <<1>>
    ELSE IF d[Len(d)] = 9 THEN Append(Increment(Front(d)), 0)
    ELSE [d EXCEPT ![Len(d)] = @ + 1]

RECURSIVE NatOf(_)
NatOf(d) == IF d = <<>> THEN 0 ELSE NatOf(Front(d)) * 10 + d[Len(d)]

RECURSIVE DigitsOf(_)
DigitsOf(n) == IF n < 10 THEN <<n>> ELSE Append(DigitsOf(n \div 10), n % 10)

PyInt(i) == [neg |-> i < 0, mag |-> DigitsOf(IF i < 0 THEN 0 - i ELSE i)]
IntOf(p) == IF p.neg THEN 0 - NatOf(p.mag) ELSE NatOf(p.mag)

\* decimal's default context: 28 significant digits
DecimalPrec == 28

\* models.py 14-17: _TWO_PLACES is Decimal("0.01"), of exponent -2
TWO_PLACES_EXP == -2
CENTS_PER_UNIT == 100
MAX_DECIMAL_PLACES == 2
\* 100 is 10^2
CentsDigits == Len(DigitsOf(CENTS_PER_UNIT)) - 1

Finite(sign, digits, exp) == [kind |-> "finite", sign |-> sign, digits |-> digits, exp |-> exp]
Special(kind, sign) == [kind |-> kind, sign |-> sign, digits |-> <<0>>, exp |-> 0]
NotDecimal == Special("InvalidOperation", 0)

(***************************************************************************)
(* Decimal(text), the constructor (models.py 41 and 52): the syntax that   *)
(* decimal accepts, for texts made of digits, a sign, a point, an exponent *)
(* mark and the lower-case letters of inf, nan and snan.  The value is     *)
(* exact: the constructor does not round.                                  *)
(***************************************************************************)
Decimal(text) ==
    LET signed == text # <<>> /\ text[1] \in {"-", "+"}
        sign == IF text # <<>> /\ text[1] = "-" THEN 1 ELSE 0
        body == IF signed THEN Tail(text) ELSE text
        e == IndexOf(body, {"e", "E"})
        mant == IF e = 0 THEN body ELSE SubSeq(body, 1, e - 1)
        expo == IF e = 0 THEN <<>> ELSE SubSeq(body, e + 1, Len(body))
        eneg == expo # <<>> /\ expo[1] = "-"
        edig == IF expo # <<>> /\ expo[1] \in {"-", "+"} THEN Tail(expo) ELSE expo
        dot == IndexOf(mant, {"."})
        ip == IF dot = 0 THEN mant ELSE SubSeq(mant, 1, dot - 1)
        fp == IF dot = 0 THEN <<>> ELSE SubSeq(mant, dot + 1, Len(mant))
        ev == IF eneg THEN 0 - NatOf(ToDigits(edig)) ELSE NatOf(ToDigits(edig))
        nan == IF body # <<>> /\ body[1] = "s" THEN Tail(body) ELSE body
    IN  IF body \in {<<"i", "n", "f">>, <<"i", "n", "f", "i", "n", "i", "t", "y">>}
           THEN Special("inf", sign)
        ELSE IF Len(nan) >= 3 /\ SubSeq(nan, 1, 3) = <<"n", "a", "n">>
                /\ AllDigits(SubSeq(nan, 4, Len(nan)))
           THEN Special(IF nan = body THEN "nan" ELSE "snan", sign)
        ELSE IF /\ AllDigits(ip) /\ AllDigits(fp) /\ Len(ip) + Len(fp) > 0
                /\ (e = 0 \/ (edig # <<>> /\ AllDigits(edig)))
           THEN Finite(sign, StripZeros(ToDigits(ip \o fp)), (IF e = 0 THEN 0 ELSE ev) - Len(fp))
        ELSE NotDecimal

(***************************************************************************)
(* Decimal arithmetic used by to_cents.                                    *)
(***************************************************************************)
\* Decimal._rescale(exp, ROUND_HALF_UP): the same value at exponent exp
Rescale(d, exp) ==
    LET keep == Len(d.digits) + d.exp - exp IN
    IF IsZero(d.digits) THEN Finite(d.sign, <<0>>, exp)
    ELSE IF d.exp >= exp THEN Finite(d.sign, d.digits \o Zeros(d.exp - exp), exp)
    ELSE IF keep < 0 THEN Finite(d.sign, <<0>>, exp)
    ELSE LET kept == IF keep = 0 THEN <<0>> ELSE SubSeq(d.digits, 1, keep)
             up == d.digits[keep + 1] >= 5
         IN  Finite(d.sign, IF up THEN Increment(kept) ELSE kept, exp)

\* Decimal.quantize(Decimal("0.01"), rounding=ROUND_HALF_UP): InvalidOperation when
\* the result would have more digits than the context's precision
Quantize(d) ==
    IF IsZero(d.digits) THEN Finite(d.sign, <<0>>, TWO_PLACES_EXP)
    ELSE IF Len(d.digits) + d.exp - TWO_PLACES_EXP > DecimalPrec THEN NotDecimal
    ELSE LET ans == Rescale(d, TWO_PLACES_EXP) IN
         IF Len(ans.digits) > DecimalPrec THEN NotDecimal ELSE ans

\* q * 100: the exact product, rounded to the context's precision (the digits
\* dropped are the zeros the product added, so the rounding mode plays no part)
TimesCentsPerUnit(q) ==
    LET prod == IF IsZero(q.digits) THEN q ELSE Finite(q.sign, q.digits \o Zeros(CentsDigits), q.exp)
        over == Len(prod.digits) - DecimalPrec
    IN  IF over > 0 THEN Rescale(prod, prod.exp + over) ELSE prod

\* Decimal.to_integral_value(rounding=ROUND_HALF_UP)
ToIntegralValue(d) == IF d.exp >= 0 THEN d ELSE Rescale(d, 0)

\* int(Decimal) of an integral value
IntOfDecimal(d) ==
    IF IsZero(d.digits) THEN [neg |-> FALSE, mag |-> <<0>>]
    ELSE [neg |-> d.sign = 1, mag |-> d.digits \o Zeros(d.exp)]

Raised(exc) == [exc |-> exc, int |-> [neg |-> FALSE, mag |-> <<0>>]]
Returned(p) == [exc |-> "none", int |-> p]

(***************************************************************************)
(* to_cents (models.py 19-22) and cents_to_str (models.py 24-30)           *)
(***************************************************************************)
\* a quiet NaN passes through quantize, the product and to_integral_value, and
\* int() of it raises ValueError; a signalling NaN and an infinity make quantize
\* raise InvalidOperation; a text that is no decimal never yields an amount
to_cents(amount) ==
    IF amount.kind = "nan" THEN Raised("ValueError")
    ELSE IF amount.kind # "finite" THEN Raised("InvalidOperation")
    ELSE LET q == Quantize(amount) IN
         IF q.kind # "finite" THEN Raised("InvalidOperation")
         ELSE Returned(IntOfDecimal(ToIntegralValue(TimesCentsPerUnit(q))))

\* cents // 100 and cents % 100 of a magnitude: 100 is 10^2, so the quotient is
\* the digits but the last two and the remainder is the value of the last two
FloorDivCentsPerUnit(mag) ==
    IF Len(mag) <= CentsDigits THEN <<0>> ELSE SubSeq(mag, 1, Len(mag) - CentsDigits)
ModCentsPerUnit(mag) ==
    IF Len(mag) <= CentsDigits THEN NatOf(mag)
    ELSE NatOf(SubSeq(mag, Len(mag) - CentsDigits + 1, Len(mag)))

\* f"{frac:02d}" for 0 <= frac < 100
TwoDigits(frac) == <<DigitChar(frac \div 10), DigitChar(frac % 10)>>

cents_to_str(cents) ==
    LET sign == IF cents.neg THEN <<"-">> ELSE <<>>
        whole == FloorDivCentsPerUnit(cents.mag)
        frac == ModCentsPerUnit(cents.mag)
    IN  sign \o ToChars(whole) \o <<".">> \o TwoDigits(frac)

(***************************************************************************)
(* The record of an execution against which linearizability is judged.     *)
(* For each key, lin[key] holds every way the get_balance, deposit and     *)
(* withdraw calls made so far can be explained by a sequential order that  *)
(* respects real time: a world is the balance the account has in that      *)
(* order (None: no such account) and, for every thread, the outcome its    *)
(* current call has in that order ("pending": the call has not yet taken   *)
(* effect in it).  An invocation adds a pending call, any pending call may *)
(* take effect at any time, and a return keeps the worlds in which the     *)
(* call took effect with the outcome it returned.  The execution is        *)
(* linearizable as long as a world is left.                                *)
(***************************************************************************)
AccountOps == {"get_balance", "deposit", "withdraw"}
Pending == [res |-> "pending", val |-> None]

\* The sequential meaning of a call on an account with balance b.
SeqApply(b, c) ==
    IF b = None
       THEN [bal |-> b, o |-> [res |-> "AccountNotFound", val |-> None]]
    ELSE IF c.op = "get_balance"
       THEN [bal |-> b, o |-> [res |-> "ok", val |-> b]]
    ELSE IF c.op = "deposit"
       THEN [bal |-> b + c.amt, o |-> [res |-> "ok", val |-> b + c.amt]]
    ELSE IF c.amt > b
       THEN [bal |-> b, o |-> [res |-> "InsufficientFunds", val |-> None]]
       ELSE [bal |-> b - c.amt, o |-> [res |-> "ok", val |-> b - c.amt]]

TakeEffect(w, t, c) ==
    LET a == SeqApply(w.bal, c[t]) IN [bal |-> a.bal, r |-> [w.r EXCEPT ![t] = a.o]]

Expand(W, c) ==
    W \cup UNION {{TakeEffect(w, t, c) : t \in {u \in DOMAIN c : w.r[u] = Pending}} : w \in W}

RECURSIVE Closure(_, _, _)
Closure(W, c, n) == IF n = 0 THEN W ELSE Closure(Expand(W, c), c, n - 1)

LinInit(seed, T) ==
    lin = [k \in Keys |-> {[bal |-> IF Has(seed, k) THEN seed[k] ELSE None,
                            r |-> [t \in T |-> NoOut]]}]

\* thread t invokes the call c[t]
LinInvoke(t, c) ==
    IF c[t].op \in AccountOps
       THEN [lin EXCEPT ![c[t].key] =
                Closure({[w EXCEPT !.r[t] = Pending] : w \in @}, c, Cardinality(DOMAIN c))]
       ELSE lin

\* thread t's call returns the outcome o
LinReturn(t, o) ==
    IF call[t].op \in AccountOps
       THEN [lin EXCEPT ![call[t].key] =
                {[w EXCEPT !.r[t] = NoOut] : w \in {x \in @ : x.r[t] = o}}]
       ELSE lin

\* the account k comes to exist with balance b
LinCreate(k, b) ==
    [lin EXCEPT ![k] = Closure({[w EXCEPT !.bal = b] : w \in @}, call, Cardinality(DOMAIN call))]

(***************************************************************************)
(* InMemoryStore.__init__: a copy of the seed mapping and one new Lock per *)
(* seeded account.                                                         *)
(***************************************************************************)
SeedOrder == <<SeedKey>>
SeedIndex(k) == CHOOSE i \in 1..Len(SeedOrder) : SeedOrder[i] = k

StoreInit(seed) ==
    /\ balances = seed
    /\ locks = [k \in DOMAIN seed |-> SeedIndex(k)]
    /\ lockHolder = [i \in 1..Len(SeedOrder) |-> NoThread]

\* The seed mappings tried: the seeded account with each starting balance.
Seeds == {[k \in {SeedKey} |-> b] : b \in 0..MaxSeed}

ThreadsInit(T) ==
    /\ pc = [t \in T |-> "idle"]
    /\ call = [t \in T |-> NoCall]
    /\ loc = [t \in T |-> NoLoc]
    /\ out = [t \in T |-> NoOut]
    /\ ncalls = 0
    /\ created = [k \in Keys |-> 0]

NoScenario == [name |-> "store", key |-> "", amt |-> 0]
NoCodec == [stage |-> "off", n |-> PyInt(0), text |-> <<>>, back |-> Raised("none")]
\* the application has started: main.py 73 has run
NoEnv == [json |-> "unset", entries |-> <<>>]
NoBoot == [stage |-> "up", env |-> NoEnv, i |-> 0, out |-> <<>>, err |-> "none"]

Init ==
    /\ \E seed \in Seeds : StoreInit(seed) /\ LinInit(seed, StoreThreads)
    /\ ThreadsInit(StoreThreads)
    /\ scn = NoScenario
    /\ cdc = NoCodec
    /\ boot = NoBoot

(***************************************************************************)
(* A call and its return.                                                  *)
(***************************************************************************)
Idle(t) == pc[t] \in {"idle", "done"}

\* The method op of the store is entered with its arguments.
Enter(t, op, k, a, first) ==
    /\ ncalls' = ncalls + 1
    /\ pc' = [pc EXCEPT ![t] = first]
    /\ call' = [call EXCEPT ![t] = [op |-> op, key |-> k, amt |-> a, text |-> call[t].text]]
    /\ loc' = [loc EXCEPT ![t] = NoLoc]
    /\ out' = [out EXCEPT ![t] = NoOut]
    /\ lin' = LinInvoke(t, call')
    /\ UNCHANGED <<balances, locks, lockHolder, created, scn, cdc, boot>>

\* A thread calls a method of the store directly.
Invoke(t, op, k, a, first) ==
    /\ Idle(t)
    /\ ncalls < MaxCalls
    /\ Enter(t, op, k, a, first)

\* The call ends: a returned value, or a raised exception.
Finish(t, res, val) ==
    /\ pc' = [pc EXCEPT ![t] = "done"]
    /\ out' = [out EXCEPT ![t] = [res |-> res, val |-> val]]
    /\ created' = IF call[t].op = "create_account" /\ res = "ok"
                     THEN [created EXCEPT ![call[t].key] = @ + 1]
                     ELSE created
    /\ lin' = LinReturn(t, [res |-> res, val |-> val])
    /\ UNCHANGED <<scn, cdc, boot>>

\* The call goes on to its next statement.
Goto(t, label) ==
    /\ pc' = [pc EXCEPT ![t] = label]
    /\ UNCHANGED <<out, created, lin, scn, cdc, boot>>

\* `with lock:` leaves the block, by return or by raise.
Release(t) == lockHolder' = [lockHolder EXCEPT ![loc[t].lock] = NoThread]

(***************************************************************************)
(* get_balance_cents (storage.py 25-29)                                    *)
(***************************************************************************)
CallGetBalance(t) == \E k \in Keys : Invoke(t, "get_balance", k, 0, "g_check")

\* GetCheck as it would be if a missing key were given a zero balance (a defaultdict)
GetCheck_Default(t) ==
    /\ pc[t] = "g_check"
    /\ balances' = IF Has(balances, call[t].key) THEN balances ELSE Put(balances, call[t].key, 0)
    /\ Goto(t, "g_read")
    /\ UNCHANGED <<locks, lockHolder, call, loc, ncalls>>

\* line 27-28
GetCheck(t) ==
    /\ pc[t] = "g_check"
    /\ IF Has(balances, call[t].key)
          THEN Goto(t, "g_read")
          ELSE Finish(t, "AccountNotFound", None)
    /\ UNCHANGED <<balances, locks, lockHolder, call, loc, ncalls>>

\* line 29
GetRead(t) ==
    /\ pc[t] = "g_read"
    /\ Finish(t, "ok", balances[call[t].key])
    /\ UNCHANGED <<balances, locks, lockHolder, call, loc, ncalls>>

(***************************************************************************)
(* has_account (storage.py 21-23): True is 1 and False is 0                *)
(***************************************************************************)
CallHasAccount(t) == \E k \in Keys : Invoke(t, "has_account", k, 0, "ha_ret")

\* line 23
HasAccountRet(t) ==
    /\ pc[t] = "ha_ret"
    /\ Finish(t, "ok", IF Has(balances, call[t].key) THEN 1 ELSE 0)
    /\ UNCHANGED <<balances, locks, lockHolder, call, loc, ncalls>>

(***************************************************************************)
(* _get_lock (storage.py 15-19), called by deposit and withdraw            *)
(***************************************************************************)
\* line 17
GetLockCheck(t) ==
    /\ pc[t] = "gl_check"
    /\ Goto(t, IF Has(locks, call[t].key) THEN "gl_ret" ELSE "gl_new")
    /\ UNCHANGED <<balances, locks, lockHolder, call, loc, ncalls>>

\* line 18: self._locks[account_number] = Lock()
GetLockNew(t) ==
    /\ pc[t] = "gl_new"
    /\ lockHolder' = Append(lockHolder, NoThread)
    /\ locks' = Put(locks, call[t].key, NewLockId)
    /\ Goto(t, "gl_ret")
    /\ UNCHANGED <<balances, call, loc, ncalls>>

\* GetLockRet as it would be if every call were handed a lock of its own
GetLockRet_Fresh(t) ==
    /\ pc[t] = "gl_ret"
    /\ lockHolder' = Append(lockHolder, NoThread)
    /\ loc' = [loc EXCEPT ![t].lock = NewLockId]
    /\ Goto(t, "acquire")
    /\ UNCHANGED <<balances, locks, call, ncalls>>

\* line 19: return self._locks[account_number]
GetLockRet(t) ==
    /\ pc[t] = "gl_ret"
    /\ loc' = [loc EXCEPT ![t].lock = locks[call[t].key]]
    /\ Goto(t, "acquire")
    /\ UNCHANGED <<balances, locks, lockHolder, call, ncalls>>

\* Acquire as it would be if the with block did not wait for the lock
Acquire_NoWait(t) ==
    /\ pc[t] = "acquire"
    /\ lockHolder' = [lockHolder EXCEPT ![loc[t].lock] = t]
    /\ Goto(t, IF call[t].op = "deposit" THEN "d_read" ELSE "w_read")
    /\ UNCHANGED <<balances, locks, call, loc, ncalls>>

\* Acquire as it would be under one lock for the whole store
Acquire_Global(t) ==
    /\ pc[t] = "acquire"
    /\ \A l \in 1..Len(lockHolder) : lockHolder[l] = NoThread
    /\ lockHolder' = [lockHolder EXCEPT ![loc[t].lock] = t]
    /\ Goto(t, IF call[t].op = "deposit" THEN "d_read" ELSE "w_read")
    /\ UNCHANGED <<balances, locks, call, loc, ncalls>>

\* `with lock:` enters the block (lines 39 and 51): blocks while the lock is held
Acquire(t) ==
    /\ pc[t] = "acquire"
    /\ lockHolder[loc[t].lock] = NoThread
    /\ lockHolder' = [lockHolder EXCEPT ![loc[t].lock] = t]
    /\ Goto(t, IF call[t].op = "deposit" THEN "d_read" ELSE "w_read")
    /\ UNCHANGED <<balances, locks, call, loc, ncalls>>

(***************************************************************************)
(* deposit (storage.py 31-41)                                              *)
(***************************************************************************)
CallDeposit(t) == \E k \in Keys, a \in Amounts : Invoke(t, "deposit", k, a, "d_check")

\* DepositCheck as it would be without the existence check
DepositCheck_NoCheck(t) ==
    /\ pc[t] = "d_check"
    /\ Goto(t, "gl_check")
    /\ UNCHANGED <<balances, locks, lockHolder, call, loc, ncalls>>

\* line 36-37
DepositCheck(t) ==
    /\ pc[t] = "d_check"
    /\ IF Has(balances, call[t].key)
          THEN Goto(t, "gl_check")
          ELSE Finish(t, "AccountNotFound", None)
    /\ UNCHANGED <<balances, locks, lockHolder, call, loc, ncalls>>

\* line 40, `+=`: the load of self._balances[account_number]
DepositRead(t) ==
    /\ pc[t] = "d_read"
    /\ loc' = [loc EXCEPT ![t].bal = balances[call[t].key]]
    /\ Goto(t, "d_write")
    /\ UNCHANGED <<balances, locks, lockHolder, call, ncalls>>

\* DepositWrite as it would be if the sum were stored under every key
DepositWrite_AllKeys(t) ==
    /\ pc[t] = "d_write"
    /\ balances' = [k \in DOMAIN balances |-> loc[t].bal + call[t].amt]
    /\ loc' = [loc EXCEPT ![t].pre = balances[call[t].key],
                          ![t].post = loc[t].bal + call[t].amt]
    /\ Goto(t, "d_ret")
    /\ UNCHANGED <<locks, lockHolder, call, ncalls>>

\* line 40, `+=`: the store of the sum
DepositWrite(t) ==
    /\ pc[t] = "d_write"
    /\ balances' = [balances EXCEPT ![call[t].key] = loc[t].bal + call[t].amt]
    /\ loc' = [loc EXCEPT ![t].pre = balances[call[t].key],
                          ![t].post = loc[t].bal + call[t].amt]
    /\ Goto(t, "d_ret")
    /\ UNCHANGED <<locks, lockHolder, call, ncalls>>

\* line 41: return self._balances[account_number], leaving the with block
DepositRet(t) ==
    /\ pc[t] = "d_ret"
    /\ Finish(t, "ok", balances[call[t].key])
    /\ Release(t)
    /\ UNCHANGED <<balances, locks, call, loc, ncalls>>

(***************************************************************************)
(* withdraw (storage.py 43-56)                                             *)
(***************************************************************************)
CallWithdraw(t) == \E k \in Keys, a \in Amounts : Invoke(t, "withdraw", k, a, "w_check")

\* line 48-49
WithdrawCheck(t) ==
    /\ pc[t] = "w_check"
    /\ IF Has(balances, call[t].key)
          THEN Goto(t, "gl_check")
          ELSE Finish(t, "AccountNotFound", None)
    /\ UNCHANGED <<balances, locks, lockHolder, call, loc, ncalls>>

\* WithdrawRead as it would be without the insufficient-funds check
WithdrawRead_NoCheck(t) ==
    /\ pc[t] = "w_read"
    /\ loc' = [loc EXCEPT ![t].bal = balances[call[t].key], ![t].pre = balances[call[t].key]]
    /\ Goto(t, "w_write")
    /\ UNCHANGED <<balances, locks, lockHolder, call, ncalls>>

\* WithdrawRead as it would be if an overdraft emptied the account before failing
WithdrawRead_Clamp(t) ==
    /\ pc[t] = "w_read"
    /\ LET bal == balances[call[t].key] IN
         /\ loc' = [loc EXCEPT ![t].bal = bal, ![t].pre = bal]
         /\ IF call[t].amt > bal
               THEN /\ Finish(t, "InsufficientFunds", None) /\ Release(t)
                    /\ balances' = [balances EXCEPT ![call[t].key] = 0]
               ELSE Goto(t, "w_write") /\ UNCHANGED <<lockHolder, balances>>
    /\ UNCHANGED <<locks, call, ncalls>>

\* WithdrawRead as it would be if the raise left the lock held
WithdrawRead_NoRelease(t) ==
    /\ pc[t] = "w_read"
    /\ LET bal == balances[call[t].key] IN
         /\ loc' = [loc EXCEPT ![t].bal = bal, ![t].pre = bal]
         /\ IF call[t].amt > bal
               THEN Finish(t, "InsufficientFunds", None)
               ELSE Goto(t, "w_write")
    /\ UNCHANGED <<balances, locks, lockHolder, call, ncalls>>

\* line 52-54: bal = self._balances[account_number]; the check on the local bal;
\* the raise leaves the with block
WithdrawRead(t) ==
    /\ pc[t] = "w_read"
    /\ LET bal == balances[call[t].key] IN
         /\ loc' = [loc EXCEPT ![t].bal = bal, ![t].pre = bal]
         /\ IF call[t].amt > bal
               THEN Finish(t, "InsufficientFunds", None) /\ Release(t)
               ELSE Goto(t, "w_write") /\ UNCHANGED lockHolder
    /\ UNCHANGED <<balances, locks, call, ncalls>>

\* line 55
WithdrawWrite(t) ==
    /\ pc[t] = "w_write"
    /\ balances' = [balances EXCEPT ![call[t].key] = loc[t].bal - call[t].amt]
    /\ loc' = [loc EXCEPT ![t].pre = balances[call[t].key],
                          ![t].post = loc[t].bal - call[t].amt]
    /\ Goto(t, "w_ret")
    /\ UNCHANGED <<locks, lockHolder, call, ncalls>>

\* line 56: return self._balances[account_number], leaving the with block
WithdrawRet(t) ==
    /\ pc[t] = "w_ret"
    /\ Finish(t, "ok", balances[call[t].key])
    /\ Release(t)
    /\ UNCHANGED <<balances, locks, call, loc, ncalls>>

(***************************************************************************)
(* create_account (storage.py 58-63)                                       *)
(***************************************************************************)
CallCreate(t) == \E k \in Keys, a \in Openings : Invoke(t, "create_account", k, a, "c_check")

\* line 60-61
CreateCheck(t) ==
    /\ pc[t] = "c_check"
    /\ IF Has(balances, call[t].key)
          THEN Finish(t, "AccountAlreadyExists", None)
          ELSE Goto(t, "c_bal")
    /\ UNCHANGED <<balances, locks, lockHolder, call, loc, ncalls>>

\* line 62
CreateBalance(t) ==
    /\ pc[t] = "c_bal"
    /\ balances' = Put(balances, call[t].key, call[t].amt)
    /\ pc' = [pc EXCEPT ![t] = "c_lock"]
    /\ lin' = LinCreate(call[t].key, call[t].amt)
    /\ UNCHANGED <<out, created, scn, cdc, boot>>
    /\ UNCHANGED <<locks, lockHolder, call, loc, ncalls>>

\* line 63, and the return
CreateLock(t) ==
    /\ pc[t] = "c_lock"
    /\ lockHolder' = Append(lockHolder, NoThread)
    /\ locks' = Put(locks, call[t].key, NewLockId)
    /\ Finish(t, "ok", None)
    /\ UNCHANGED <<balances, call, loc, ncalls>>

(***************************************************************************)
(* snapshot (storage.py 65-67): a dict comprehension over                  *)
(* self._balances.items().  A dict iterates in insertion order: the seeded *)
(* key, then the key create_account added.  The iterator remembers the     *)
(* size the dict had when it was made; each call for the next item raises  *)
(* RuntimeError ("dictionary changed size during iteration") if the dict   *)
(* has another size by then, and otherwise yields the next key with the    *)
(* value it has at that moment.  cents_to_str runs between two items, so   *)
(* other threads run between them.                                         *)
(***************************************************************************)
DictKeys(d) == SelectSeq(<<SeedKey, NewKey>>, LAMBDA k : Has(d, k))

CallSnapshot(t) == Invoke(t, "snapshot", "", 0, "s_iter")

\* line 67: self._balances.items() and its iterator
SnapshotIter(t) ==
    /\ pc[t] = "s_iter"
    /\ loc' = [loc EXCEPT ![t].size = Cardinality(DOMAIN balances)]
    /\ Goto(t, "s_next")
    /\ UNCHANGED <<balances, locks, lockHolder, call, ncalls>>

\* line 67: the next item and its formatting, or the end and the return
SnapshotNext(t) ==
    /\ pc[t] = "s_next"
    /\ IF Cardinality(DOMAIN balances) # loc[t].size
          THEN Finish(t, "RuntimeError", None) /\ UNCHANGED loc
       ELSE IF Len(loc[t].snap) = loc[t].size
          THEN Finish(t, "ok", None) /\ UNCHANGED loc
       ELSE LET k == DictKeys(balances)[Len(loc[t].snap) + 1] IN
            /\ loc' = [loc EXCEPT ![t].snap = Append(@, <<k, cents_to_str(PyInt(balances[k]))>>)]
            /\ Goto(t, "s_next")
    /\ UNCHANGED <<balances, locks, lockHolder, call, ncalls>>

(***************************************************************************)
(* AmountIn.validate_amount (models.py 36-48).  The outcome is "ok", the   *)
(* message of the ValueError raised (a 422 response), or the exception     *)
(* that escapes the validator: comparing a NaN raises InvalidOperation,    *)
(* and abs() of an infinity's exponent 'F' raises TypeError.               *)
(***************************************************************************)
\* validate_amount as it would be without the check of the decimal places
validate_amount_NoPlaces(v) ==
    LET dec == Decimal(v) IN
    IF dec.kind = "InvalidOperation" THEN "ERR_AMOUNT_DECIMAL"
    ELSE IF dec.kind \in {"nan", "snan"} THEN "InvalidOperation"
    ELSE IF dec.sign = 1 \/ (dec.kind = "finite" /\ IsZero(dec.digits)) THEN "ERR_AMOUNT_POSITIVE"
    ELSE IF dec.kind = "inf" THEN "TypeError"
    ELSE "ok"

validate_amount(v) ==
    LET dec == Decimal(v) IN
    IF dec.kind = "InvalidOperation" THEN "ERR_AMOUNT_DECIMAL"
    ELSE IF dec.kind \in {"nan", "snan"} THEN "InvalidOperation"
    ELSE IF dec.sign = 1 \/ (dec.kind = "finite" /\ IsZero(dec.digits)) THEN "ERR_AMOUNT_POSITIVE"
    ELSE IF dec.kind = "inf" THEN "TypeError"
    ELSE IF (IF dec.exp < 0 THEN 0 - dec.exp ELSE dec.exp) > MAX_DECIMAL_PLACES
       THEN "ERR_AMOUNT_DECIMALS"
    ELSE "ok"

\* AmountIn.amount_cents (models.py 50-52)
amount_cents(text) == to_cents(Decimal(text))

(***************************************************************************)
(* The deposit and withdraw handlers (main.py 92-116): the body is         *)
(* validated, the amount converted and the store called.                   *)
(***************************************************************************)
MaxTextLen == 4
TextChars == {"0", "1", "5", ".", "-", "e", "a"}

RECURSIVE TextsOfLen(_)
TextsOfLen(n) ==
    IF n = 0 THEN {<<>>}
    ELSE {Append(s, c) : s \in TextsOfLen(n - 1), c \in TextChars}

\* the amount texts tried: every text of up to MaxTextLen characters, and the
\* texts of the tests
AmountTexts ==
    UNION {TextsOfLen(n) : n \in 0..MaxTextLen}
    \cup { <<"1", ".", "2", "3", "4">>, <<"-", "5", ".", "0", "0">>, <<"0", ".", "0", "0">>,
           <<"a", "b", "c">>, <<"1", "0", ".", "5", "0">>, <<"1", ".", "2", "5">>,
           <<"i", "n", "f">>, <<"n", "a", "n">>, <<"+", "1">> }

\* a request arrives: POST /accounts/{key}/deposit or /withdraw with {"amount": text}
HRequest(t) ==
    /\ pc[t] = "idle"
    /\ \E op \in {"deposit", "withdraw"}, k \in Keys, text \in AmountTexts :
          call' = [call EXCEPT ![t] = [op |-> op, key |-> k, amt |-> 0, text |-> text]]
    /\ Goto(t, "h_validate")
    /\ UNCHANGED <<balances, locks, lockHolder, loc, ncalls>>

\* the body is built: AmountIn(amount=text) runs the validator
HValidate(t) ==
    /\ pc[t] = "h_validate"
    /\ LET r == validate_amount(call[t].text) IN
         IF r = "ok" THEN Goto(t, "h_amount") ELSE Finish(t, r, None)
    /\ UNCHANGED <<balances, locks, lockHolder, call, loc, ncalls>>

\* main.py 99 and 111: store.deposit(account_number, body.amount_cents())
HAmount(t) ==
    /\ pc[t] = "h_amount"
    /\ LET c == amount_cents(call[t].text) IN
         IF c.exc = "none"
            THEN Enter(t, call[t].op, call[t].key, IntOf(c.int),
                       IF call[t].op = "deposit" THEN "d_check" ELSE "w_check")
            ELSE Finish(t, c.exc, None)
                 /\ UNCHANGED <<balances, locks, lockHolder, call, loc, ncalls>>

(***************************************************************************)
(* Any caller may invoke any method at any time; a call in progress takes  *)
(* its next step.                                                          *)
(***************************************************************************)
Step(t) ==
    \/ CallGetBalance(t) \/ GetCheck(t) \/ GetRead(t)
    \/ CallHasAccount(t) \/ HasAccountRet(t)
    \/ GetLockCheck(t) \/ GetLockNew(t) \/ GetLockRet(t) \/ Acquire(t)
    \/ CallDeposit(t) \/ DepositCheck(t) \/ DepositRead(t) \/ DepositWrite(t) \/ DepositRet(t)
    \/ CallWithdraw(t) \/ WithdrawCheck(t) \/ WithdrawRead(t) \/ WithdrawWrite(t) \/ WithdrawRet(t)
    \/ CallCreate(t) \/ CreateCheck(t) \/ CreateBalance(t) \/ CreateLock(t)
    \/ CallSnapshot(t) \/ SnapshotIter(t) \/ SnapshotNext(t)

Next == \E t \in Threads : Step(t)

Spec == Init /\ [][Next]_vars

\* Fair scheduling: a thread that is inside a call and can take its next step
\* is not left waiting for ever.
Advance(t) == ~Idle(t) /\ Step(t)
SpecFair == Init /\ [][Next]_vars /\ \A t \in StoreThreads : WF_vars(Advance(t))

(***************************************************************************)
(* The start of the application (main.py 48-73): _load_initial_accounts    *)
(* reads PRELOAD_ACCOUNTS and the store is constructed from what it        *)
(* returns.  The variable's content boot.env is what json.loads makes of   *)
(* it: "unset" (no or empty variable), "invalid" (no JSON), "array" (JSON  *)
(* that is no object) or an object, whose entries are in the order of the  *)
(* text.  A value is a JSON string ("str"), a JSON number, given as the    *)
(* text str(val) of it ("num"), or anything else ("other").                *)
(***************************************************************************)
MaxEntries == 2
SeedValues ==
    { [kind |-> "str", text |-> <<"0">>], [kind |-> "str", text |-> <<"1", ".", "5">>],
      [kind |-> "str", text |-> <<"a", "b", "c">>], [kind |-> "str", text |-> <<"n", "a", "n">>],
      [kind |-> "num", text |-> <<"1">>], [kind |-> "num", text |-> <<"0", ".", "5">>],
      [kind |-> "num", text |-> <<"i", "n", "f">>], [kind |-> "other", text |-> <<>>] }
SeedEntries == { [acc |-> k, val |-> v] : k \in Keys, v \in SeedValues }
SeedObjects ==
    { es \in UNION { [1..n -> SeedEntries] : n \in 0..MaxEntries } :
        \A i, j \in 1..Len(es) : i # j => es[i].acc # es[j].acc }
SeedEnvs ==
    { [json |-> j, entries |-> <<>>] : j \in {"unset", "invalid", "array"} }
    \cup { [json |-> "object", entries |-> es] : es \in SeedObjects }

\* lines 62-67: the cents of one value, or the exception the conversion raises
SeedCents(val) ==
    IF val.kind = "other" THEN Raised("ValueError")
    ELSE to_cents(Decimal(val.text))

InitBoot ==
    /\ balances = <<>> /\ locks = <<>> /\ lockHolder = <<>>
    /\ LinInit(<<>>, StoreThreads)
    /\ ThreadsInit(StoreThreads)
    /\ scn = [NoScenario EXCEPT !.name = "boot"]
    /\ cdc = NoCodec
    /\ \E env \in SeedEnvs : boot = [NoBoot EXCEPT !.stage = "getenv", !.env = env]

BootUnchanged ==
    UNCHANGED <<pc, call, loc, out, ncalls, created, scn, cdc>>

\* lines 70-71: any exception becomes the RuntimeError that names it; the import of
\* main.py fails and line 73 is never reached
LoadFail(exc) ==
    /\ boot' = [boot EXCEPT !.stage = "failed", !.err = exc]
    /\ UNCHANGED <<balances, locks, lockHolder, lin>>

\* lines 54-57
LoadGetenv ==
    /\ boot.stage = "getenv"
    /\ IF boot.env.json = "unset"
          THEN \E seed \in Seeds : boot' = [boot EXCEPT !.stage = "returned", !.out = seed]
          ELSE boot' = [boot EXCEPT !.stage = "loads"]
    /\ UNCHANGED <<balances, locks, lockHolder, lin>>
    /\ BootUnchanged

\* lines 59-61: json.loads, and raw.items()
LoadJson ==
    /\ boot.stage = "loads"
    /\ IF boot.env.json = "invalid" THEN LoadFail("JSONDecodeError")
       ELSE IF boot.env.json = "array" THEN LoadFail("AttributeError")
       ELSE /\ boot' = [boot EXCEPT !.stage = "loop", !.i = 1, !.out = <<>>]
            /\ UNCHANGED <<balances, locks, lockHolder, lin>>
    /\ BootUnchanged

\* LoadEntry as it would be if a malformed entry were skipped
LoadEntry_Skip ==
    /\ boot.stage = "loop"
    /\ IF boot.i > Len(boot.env.entries)
          THEN boot' = [boot EXCEPT !.stage = "returned"]
          ELSE LET e == boot.env.entries[boot.i]
                   c == SeedCents(e.val)
               IN  boot' = [boot EXCEPT !.i = @ + 1,
                                        !.out = IF c.exc = "none" THEN Put(@, e.acc, IntOf(c.int)) ELSE @]
    /\ UNCHANGED <<balances, locks, lockHolder, lin>>
    /\ BootUnchanged

\* lines 61-69: one turn of the loop, or its end and the return of out
LoadEntry ==
    /\ boot.stage = "loop"
    /\ IF boot.i > Len(boot.env.entries)
          THEN /\ boot' = [boot EXCEPT !.stage = "returned"]
               /\ UNCHANGED <<balances, locks, lockHolder, lin>>
          ELSE LET e == boot.env.entries[boot.i]
                   c == SeedCents(e.val)
               IN  IF c.exc = "none"
                      THEN /\ boot' = [boot EXCEPT !.i = @ + 1, !.out = Put(@, e.acc, IntOf(c.int))]
                           /\ UNCHANGED <<balances, locks, lockHolder, lin>>
                      ELSE LoadFail(c.exc)
    /\ BootUnchanged

\* line 73 and storage.py 11-13: the store is made of the mapping returned
StoreConstruct ==
    /\ boot.stage = "returned"
    /\ boot' = [boot EXCEPT !.stage = "up"]
    /\ balances' = boot.out
    /\ LET order == SelectSeq(<<SeedKey, NewKey>>, LAMBDA k : Has(boot.out, k)) IN
         /\ locks' = [k \in DOMAIN boot.out |-> CHOOSE i \in 1..Len(order) : order[i] = k]
         /\ lockHolder' = [i \in 1..Len(order) |-> NoThread]
    /\ lin' = [k \in Keys |-> {[bal |-> IF Has(boot.out, k) THEN boot.out[k] ELSE None,
                                  r |-> [t \in Threads |-> NoOut]]}]
    /\ BootUnchanged

NextBoot == LoadGetenv \/ LoadJson \/ LoadEntry \/ StoreConstruct

SpecBoot == InitBoot /\ [][NextBoot]_vars

(***************************************************************************)
(* The money codec on its own: a balance is formatted and the text parsed  *)
(* back.  The balances tried are every integer of small magnitude and, up  *)
(* to MaxDigits digits, the integers whose digits are a 1 or a 9 followed  *)
(* by 0s or by 9s.                                                         *)
(***************************************************************************)
MaxCents == 150
MaxDigits == 29

CodecInputs ==
    {PyInt(i) : i \in (0 - MaxCents)..MaxCents}
    \cup {[neg |-> s, mag |-> <<d>> \o [i \in 1..(l - 1) |-> r]] :
             s \in BOOLEAN, d \in {1, 9}, r \in {0, 9}, l \in 1..MaxDigits}

InitCodec ==
    /\ \E seed \in Seeds : StoreInit(seed) /\ LinInit(seed, StoreThreads)
    /\ ThreadsInit(StoreThreads)
    /\ scn = [NoScenario EXCEPT !.name = "codec"]
    /\ \E n \in CodecInputs : cdc = [NoCodec EXCEPT !.stage = "int", !.n = n]
    /\ boot = NoBoot

StoreUnchanged ==
    UNCHANGED <<balances, locks, lockHolder, pc, call, loc, out, ncalls, created, lin, scn, boot>>

CodecFormat ==
    /\ cdc.stage = "int"
    /\ cdc' = [cdc EXCEPT !.stage = "text", !.text = cents_to_str(cdc.n)]
    /\ StoreUnchanged

CodecParse ==
    /\ cdc.stage = "text"
    /\ cdc' = [cdc EXCEPT !.stage = "back", !.back = to_cents(Decimal(cdc.text))]
    /\ StoreUnchanged

NextCodec == CodecFormat \/ CodecParse

SpecCodec == InitCodec /\ [][NextCodec]_vars

(***************************************************************************)
(* The application: one request to the deposit or withdraw handler.  The   *)
(* application has no route to create_account, so every account is seeded. *)
(***************************************************************************)
AdapterThreads == {1}

InitAdapter ==
    /\ \E seed \in Seeds : StoreInit(seed) /\ LinInit(seed, AdapterThreads)
    /\ ThreadsInit(AdapterThreads)
    /\ scn = [NoScenario EXCEPT !.name = "adapter"]
    /\ cdc = NoCodec
    /\ boot = NoBoot

NextAdapter ==
    \E t \in Threads :
        \/ HRequest(t) \/ HValidate(t) \/ HAmount(t)
        \/ GetLockCheck(t) \/ GetLockRet(t) \/ Acquire(t)
        \/ DepositCheck(t) \/ DepositRead(t) \/ DepositWrite(t) \/ DepositRet(t)
        \/ WithdrawCheck(t) \/ WithdrawRead(t) \/ WithdrawWrite(t) \/ WithdrawRet(t)

SpecAdapter == InitAdapter /\ [][NextAdapter]_vars

(***************************************************************************)
(* Parallel deposits (tests/test_concurrency.py): the depositors each call *)
(* deposit once, with the same amount, on one account that exists with     *)
(* balance 0: the seeded account, or an account that a create_account      *)
(* call, since returned, has added.                                        *)
(***************************************************************************)
InitDeposits ==
    /\ ThreadsInit(Depositors)
    /\ cdc = NoCodec
    /\ boot = NoBoot
    /\ \E a \in Amounts :
        \/ /\ StoreInit([k \in {SeedKey} |-> 0])
           /\ LinInit([k \in {SeedKey} |-> 0], Depositors)
           /\ scn = [name |-> "deposits", key |-> SeedKey, amt |-> a]
        \/ \E seed \in Seeds :
           /\ balances = [k \in Keys |-> IF k = NewKey THEN 0 ELSE seed[k]]
           /\ locks = [k \in Keys |-> IF k = NewKey THEN Len(SeedOrder) + 1 ELSE SeedIndex(k)]
           /\ lockHolder = [i \in 1..(Len(SeedOrder) + 1) |-> NoThread]
           /\ LinInit(balances, Depositors)
           /\ scn = [name |-> "deposits", key |-> NewKey, amt |-> a]

DepositorCall(t) ==
    /\ pc[t] = "idle"
    /\ Enter(t, "deposit", scn.key, scn.amt, "d_check")

NextDeposits ==
    \E t \in Threads :
        \/ DepositorCall(t) \/ DepositCheck(t)
        \/ GetLockCheck(t) \/ GetLockRet(t) \/ Acquire(t)
        \/ DepositRead(t) \/ DepositWrite(t) \/ DepositRet(t)

SpecDeposits == InitDeposits /\ [][NextDeposits]_vars

(***************************************************************************)
(* Mixed traffic on one account: each of the callers makes one deposit or  *)
(* one withdrawal, of any amount, on one account that exists: the seeded   *)
(* account, or an account that a create_account call, since returned, has  *)
(* added.  scn.amt is the balance the account starts with.                 *)
(***************************************************************************)
InitMixed ==
    /\ ThreadsInit(Depositors)
    /\ cdc = NoCodec
    /\ boot = NoBoot
    /\ \/ \E seed \in Seeds :
           /\ StoreInit(seed) /\ LinInit(seed, Depositors)
           /\ scn = [name |-> "mixed", key |-> SeedKey, amt |-> seed[SeedKey]]
       \/ \E seed \in Seeds, b \in Openings :
           /\ balances = [k \in Keys |-> IF k = NewKey THEN b ELSE seed[k]]
           /\ locks = [k \in Keys |-> IF k = NewKey THEN Len(SeedOrder) + 1 ELSE SeedIndex(k)]
           /\ lockHolder = [i \in 1..(Len(SeedOrder) + 1) |-> NoThread]
           /\ LinInit(balances, Depositors)
           /\ scn = [name |-> "mixed", key |-> NewKey, amt |-> b]

MixedCall(t) ==
    /\ pc[t] = "idle"
    /\ \E a \in Amounts :
          \/ Enter(t, "deposit", scn.key, a, "d_check")
          \/ Enter(t, "withdraw", scn.key, a, "w_check")

NextMixed ==
    \E t \in Threads :
        \/ MixedCall(t)
        \/ GetLockCheck(t) \/ GetLockRet(t) \/ Acquire(t)
        \/ DepositCheck(t) \/ DepositRead(t) \/ DepositWrite(t) \/ DepositRet(t)
        \/ WithdrawCheck(t) \/ WithdrawRead(t) \/ WithdrawWrite(t) \/ WithdrawRet(t)

SpecMixed == InitMixed /\ [][NextMixed]_vars

(***************************************************************************)
(*                              The claims                                 *)
(***************************************************************************)
HasReturned(t) == pc[t] = "done"
Quiescent == \A t \in Threads : pc[t] \in {"idle", "done"}

\* C1: no lost updates.  When K threads each call deposit(key, a) on one existing
\* account whose balance is 0, then once all K calls have returned the balance of
\* the account is exactly K * a, whatever the interleaving.
C1_NoLostDeposits ==
    (scn.name = "deposits" /\ Quiescent)
        => balances[scn.key] = Cardinality({t \in Threads : HasReturned(t)}) * scn.amt

\* C1's case: every one of the depositors has called deposit and has returned.
C1_AllDepositsReturned ==
    /\ scn.name = "deposits"
    /\ \A t \in Threads : HasReturned(t) /\ out[t].res = "ok"
    /\ Cardinality(Threads) >= 2

\* C2: in every reachable state, under any interleaving of get_balance, deposit,
\* withdraw and create_account calls, every stored balance is >= 0.
C2_NonNegative == \A k \in DOMAIN balances : balances[k] >= 0

\* C2's case: a withdrawal has emptied an account that create_account added.
C2_WithdrawnToZero ==
    \E t \in Threads :
        /\ call[t].op = "withdraw" /\ HasReturned(t) /\ out[t].res = "ok"
        /\ call[t].key = NewKey /\ balances[NewKey] = 0

\* C3: the sufficiency check and the decrement of a withdraw are atomic per
\* account: between the withdraw's read of the balance and its write of the
\* decremented balance, no other deposit or withdraw on the same account reads
\* or writes that balance.
BalanceAccessPcs == {"d_read", "d_write", "d_ret", "w_read", "w_write", "w_ret"}
C3_WithdrawAtomic ==
    [][\A t, u \in Threads :
          (t # u /\ pc[t] = "w_write" /\ call[u].key = call[t].key /\ pc[u] \in BalanceAccessPcs)
              => pc'[u] = pc[u]]_vars

\* C4: a withdraw on a known account succeeds if and only if its amount is at
\* most the balance at the moment it takes effect; on success the balance it
\* stores and the balance it returns are that balance minus the amount.
C4_WithdrawEffect ==
    \A t \in Threads :
        (call[t].op = "withdraw" /\ HasReturned(t))
            => /\ out[t].res = "ok"
                    => /\ call[t].amt <= loc[t].pre
                       /\ loc[t].post = loc[t].pre - call[t].amt
                       /\ out[t].val = loc[t].pre - call[t].amt
               /\ out[t].res = "InsufficientFunds" => call[t].amt > loc[t].pre

\* C5: a withdraw that fails with InsufficientFunds leaves the store unchanged:
\* the call has written no balance, and the step that raises leaves every balance
\* as it was (the balance is not clamped to zero).
C5_FailedWithdrawNoChange ==
    [][\A t \in Threads :
          (call[t].op = "withdraw" /\ pc[t] # "done" /\ pc'[t] = "done"
             /\ out'[t].res = "InsufficientFunds")
              => (balances' = balances /\ loc'[t].post = None)]_vars

\* C5's case: a withdraw has failed with InsufficientFunds on an account that holds money.
C5_OverdraftRefused ==
    \E t \in Threads :
        /\ call[t].op = "withdraw" /\ HasReturned(t) /\ out[t].res = "InsufficientFunds"
        /\ balances[call[t].key] > 0

\* C6: get_balance, deposit and withdraw on a key that is not a known account
\* fail with AccountNotFound and change nothing: no balance entry and no lock
\* entry is made for the key and every balance stays as it was.
C6_UnknownKeyNoEffect ==
    [][\A t \in Threads :
          (pc[t] \in {"g_check", "d_check", "w_check"} /\ pc'[t] # pc[t]
             /\ ~Has(balances, call[t].key))
              => /\ pc'[t] = "done" /\ out'[t].res = "AccountNotFound"
                 /\ balances' = balances /\ locks' = locks]_vars

\* C6's case: a deposit on an unknown key has failed, and the key has no entry.
C6_DepositNotFound ==
    \E t \in Threads :
        /\ call[t].op = "deposit" /\ HasReturned(t) /\ out[t].res = "AccountNotFound"
        /\ ~Has(balances, call[t].key) /\ ~Has(locks, call[t].key)

\* C7: for every key at most one create_account call returns successfully, and
\* none does for a key of the seed mapping.
C7_CreatedOnce ==
    \A k \in Keys : created[k] <= 1 /\ (k = SeedKey => created[k] = 0)

\* C8: operations on the same account are linearizable: the values and outcomes
\* returned by the get_balance, deposit and withdraw calls on an account are
\* those of some sequential order of the calls that respects real-time order.
C8_Linearizable == \A k \in Keys : lin[k] # {}

\* C9: every amount with which a handler calls store.deposit or store.withdraw
\* is a strictly positive number of cents, obtained from an amount text that
\* parses as a decimal, is > 0 and has at most 2 fractional digits; any other
\* amount text is rejected without a store operation, the ledger unchanged.
ValidAmount(d) ==
    d.kind = "finite" /\ d.sign = 0 /\ ~IsZero(d.digits) /\ d.exp >= 0 - 2
HandlerPcs == {"idle", "h_validate", "h_amount"}
C9_ValidatedAmounts ==
    scn.name = "adapter" =>
      \A t \in Threads :
        LET d == Decimal(call[t].text) IN
        /\ (pc[t] \notin HandlerPcs /\ out[t].res \in {"none", "ok", "AccountNotFound", "InsufficientFunds"})
              => /\ ValidAmount(d)
                 /\ call[t].amt > 0
                 /\ call[t].amt = NatOf(d.digits \o Zeros(d.exp + 2))
        /\ (pc[t] \notin HandlerPcs /\ ~ValidAmount(d))
              => /\ HasReturned(t)
                 /\ out[t].res \in {"ERR_AMOUNT_DECIMAL", "ERR_AMOUNT_POSITIVE",
                                    "ERR_AMOUNT_DECIMALS", "InvalidOperation", "TypeError"}
                 /\ ncalls = 0
                 /\ \E seed \in Seeds : balances = seed
                 /\ DOMAIN locks = {SeedKey} /\ lockHolder = <<NoThread>>

\* C9's case: a deposit of a valid amount text with an exponent has reached the
\* store and returned.
C9_DepositAccepted ==
    \E t \in Threads :
        /\ scn.name = "adapter" /\ call[t].op = "deposit" /\ HasReturned(t)
        /\ out[t].res = "ok" /\ call[t].text = <<"5", "e", "-", "1">> /\ out[t].val >= 50

\* C10: for every integer n of minor units, parsing the text that cents_to_str(n)
\* produces with to_cents yields n again.
C10_RoundTrip == cdc.stage = "back" => cdc.back = Returned(cdc.n)

\* C11: reads are idempotent and free of side effects.  Every step of a
\* get_balance or has_account call leaves balances and locks as they are, and
\* the value a read returns is the one the store holds at that moment: with no
\* deposit, withdraw or create_account taking effect in between, consecutive
\* get_balance(key) calls return the same value.
ReadOps == {"get_balance", "has_account"}
C11_ReadsChangeNothing ==
    [][\A t \in Threads :
          (call'[t].op \in ReadOps /\ pc'[t] # pc[t])
              => /\ balances' = balances /\ locks' = locks /\ lockHolder' = lockHolder
                 /\ (pc'[t] = "done" /\ call[t].op = "get_balance" /\ out'[t].res = "ok")
                        => out'[t].val = balances[call[t].key]
                 /\ (pc'[t] = "done" /\ call[t].op = "has_account")
                        => out'[t].val = (IF Has(balances, call[t].key) THEN 1 ELSE 0)]_vars

\* C11's case: get_balance has returned the balance of an account, has_account
\* has answered, and the store holds that balance still.
C11_BalanceRead ==
    \E t, u \in Threads :
        /\ call[t].op = "get_balance" /\ HasReturned(t) /\ out[t].res = "ok"
        /\ out[t].val = balances[call[t].key] /\ out[t].val > 0
        /\ call[u].op = "has_account" /\ HasReturned(u) /\ out[u].val = 1

\* C12: seed loading is all-or-nothing.  Until loading has returned no store
\* exists; if the seed data is malformed (no JSON, no JSON object, a text that
\* is no finite decimal, a value that is neither text nor number) loading ends
\* in the one startup failure, which names the problem of the first malformed
\* part, and no store is ever constructed; a store that is constructed holds
\* every entry of the seed data.
WellFormed(val) == val.kind # "other" /\ Decimal(val.text).kind = "finite"
Malformed(env) ==
    \/ env.json \in {"invalid", "array"}
    \/ \E i \in 1..Len(env.entries) : ~WellFormed(env.entries[i].val)
FirstProblem(env) ==
    IF env.json = "invalid" THEN "JSONDecodeError"
    ELSE IF env.json = "array" THEN "AttributeError"
    ELSE LET i == CHOOSE i \in 1..Len(env.entries) :
                     /\ ~WellFormed(env.entries[i].val)
                     /\ \A j \in 1..(i - 1) : WellFormed(env.entries[j].val)
         IN  SeedCents(env.entries[i].val).exc
C12_SeedAllOrNothing ==
    scn.name = "boot" =>
        /\ boot.stage # "up" => (balances = <<>> /\ locks = <<>> /\ lockHolder = <<>>)
        /\ boot.stage = "failed" => (Malformed(boot.env) /\ boot.err = FirstProblem(boot.env))
        /\ Malformed(boot.env) => boot.stage \in {"getenv", "loads", "loop", "failed"}
        /\ (boot.stage = "up" /\ boot.env.json = "object")
              => /\ DOMAIN balances = {boot.env.entries[i].acc : i \in 1..Len(boot.env.entries)}
                 /\ \A i \in 1..Len(boot.env.entries) :
                        balances[boot.env.entries[i].acc] = IntOf(SeedCents(boot.env.entries[i].val).int)

\* C12's case: loading has failed at the second entry, after the first was
\* converted, and there is no store.
C12_FailedAfterGoodEntry ==
    /\ boot.stage = "failed" /\ boot.i = 2 /\ boot.out # <<>>
    /\ balances = <<>>

\* C13: lock creation is race-free.  All deposit and withdraw calls on one key
\* obtain one and the same lock object from _get_lock, whatever the
\* interleaving with each other and with create_account of that key.
LockingOps == {"deposit", "withdraw"}
C13_OneLockPerKey ==
    \A t, u \in Threads :
        (/\ call[t].op \in LockingOps /\ call[u].op \in LockingOps
         /\ call[t].key = call[u].key
         /\ loc[t].lock # None /\ loc[u].lock # None)
            => loc[t].lock = loc[u].lock

\* C14: at every instant, also while a create_account call is in progress, the
\* keys of the lock registry are the keys of the balance map.
C14_LocksMatchBalances == DOMAIN locks = DOMAIN balances

\* C15: deposit and withdraw block only on their own account's lock.  A deposit
\* or withdraw in progress can always take its next step, except when it waits
\* to enter its critical section and the lock it waits for is held by a deposit
\* or withdraw on the same account: no operation on another account, and no
\* create_account, makes it wait.
C15_BlocksOnlyOnOwnLock ==
    \A t \in Threads :
        (call[t].op \in LockingOps /\ ~Idle(t))
            => \/ ENABLED Step(t)
               \/ /\ pc[t] = "acquire"
                  /\ lockHolder[loc[t].lock] \in Threads \ {t}
                  /\ call[lockHolder[loc[t].lock]].op \in LockingOps
                  /\ call[lockHolder[loc[t].lock]].key = call[t].key

\* C15's case: a deposit or withdraw is about to enter its critical section
\* while a deposit or withdraw on another account is inside its own.
C15_OtherAccountBusy ==
    \E t, u \in Threads :
        /\ pc[t] = "acquire" /\ pc[u] \in BalanceAccessPcs
        /\ call[u].key # call[t].key
        /\ lockHolder[loc[u].lock] = u

\* C16: deposit returns its own post-increment balance.  The value a deposit
\* on a known account returns is the balance the account held immediately
\* before the deposit's write, plus the amount.
C16_DepositReturnsOwnBalance ==
    \A t \in Threads :
        (call[t].op = "deposit" /\ HasReturned(t) /\ out[t].res = "ok")
            => out[t].val = loc[t].pre + call[t].amt

\* C17: snapshot always completes with a mapping, also while deposit, withdraw
\* and create_account run: a snapshot call that has ended has returned a
\* mapping whose keys are the accounts known when it began to iterate, each
\* with the two-decimal text of a balance.
C17_SnapshotCompletes ==
    \A t \in Threads :
        (call[t].op = "snapshot" /\ HasReturned(t))
            => /\ out[t].res = "ok"
               /\ Len(loc[t].snap) = loc[t].size
               /\ \A i \in 1..Len(loc[t].snap) :
                     /\ Has(balances, loc[t].snap[i][1])
                     /\ \E b \in 0..(MaxCalls * MaxAmount + MaxSeed) :
                           loc[t].snap[i][2] = cents_to_str(PyInt(b))

\* C18: under fair scheduling every deposit and withdraw call returns, with a
\* balance or with AccountNotFound or InsufficientFunds; a lock is held only by
\* a call that is inside its critical section, never by a call that has
\* returned, so no calls wait for each other for ever.
InCriticalSection(t) == pc[t] \in BalanceAccessPcs
LocksHeldInside ==
    \A l \in 1..Len(lockHolder) :
        lockHolder[l] # NoThread => (InCriticalSection(lockHolder[l]) /\ loc[lockHolder[l]].lock = l)
C18_CallsReturn ==
    /\ []LocksHeldInside
    /\ \A t \in StoreThreads :
          [](call[t].op \in LockingOps /\ ~Idle(t)
                => <>(HasReturned(t) /\ out[t].res \in {"ok", "AccountNotFound", "InsufficientFunds"}))

\* C18's case: a withdraw has failed with InsufficientFunds while another call
\* waited for the same lock, and the lock is free again.
C18_LockFreeAfterFailure ==
    \E t, u \in Threads :
        /\ call[t].op = "withdraw" /\ HasReturned(t) /\ out[t].res = "InsufficientFunds"
        /\ lockHolder[loc[t].lock] = NoThread
        /\ t # u /\ call[u].op \in LockingOps /\ loc[u].lock = loc[t].lock /\ HasReturned(u)

\* C19: conservation under mixed concurrency.  For concurrent deposits and
\* withdrawals on one account, whenever no call is in progress the balance is
\* the initial balance plus the amounts of the deposits that returned
\* successfully minus the amounts of the withdrawals that returned successfully.
Applied(t) ==
    IF HasReturned(t) /\ out[t].res = "ok"
       THEN (IF call[t].op = "deposit" THEN call[t].amt ELSE 0 - call[t].amt)
       ELSE 0
RECURSIVE AppliedSum(_)
AppliedSum(n) == IF n = 0 THEN 0 ELSE AppliedSum(n - 1) + Applied(n)
C19_Conservation ==
    (scn.name = "mixed" /\ Quiescent)
        => balances[scn.key] = scn.amt + AppliedSum(Cardinality(Threads))

\* C19's case: all callers have returned, with a successful deposit, a
\* successful withdrawal and a refused withdrawal among them.
C19_MixedReturned ==
    /\ scn.name = "mixed"
    /\ \A t \in Threads : HasReturned(t)
    /\ \E t, u, v \in Threads :
          /\ call[t].op = "deposit" /\ out[t].res = "ok"
          /\ call[u].op = "withdraw" /\ out[u].res = "ok"
          /\ call[v].op = "withdraw" /\ out[v].res = "InsufficientFunds"

\* C20: per-account frame.  Every step of a deposit or withdraw on account A,
\* of a call that succeeds or fails, leaves the set of known account keys and
\* the balance of every other account as they are.
C20_OtherAccountsUntouched ==
    [][\A t \in Threads :
          (call'[t].op \in LockingOps /\ pc'[t] # pc[t])
              => /\ DOMAIN balances' = DOMAIN balances
                 /\ \A k \in DOMAIN balances :
                       k # call'[t].key => balances'[k] = balances[k]]_vars

\* C20's case: a deposit on one account has returned, changing its balance,
\* while another account exists with a balance of its own.
C20_DepositBesideOther ==
    \E t \in Threads, k \in Keys :
        /\ call[t].op = "deposit" /\ HasReturned(t) /\ out[t].res = "ok"
        /\ k # call[t].key /\ Has(balances, k)
        /\ balances[k] # balances[call[t].key]

=============================================================================
